---- MODULE Spec2Model ----
(***************************************************************************)
(* A model of the farfalle crate: the Farfalle deck function               *)
(* (src/src/farfalle.rs), the Deck-SANE and Deck-SANSE session AEADs       *)
(* (src/src/sane.rs, src/src/sanse.rs) and the wide block cipher           *)
(* (src/src/wbc.rs).                                                       *)
(*                                                                         *)
(* The permutations Pb, Pc, Pd, Pe and the rolling functions Rc, Re are    *)
(* type parameters of the crate.  They are modelled as free symbols: a     *)
(* permuted or rolled block is the term that records what was permuted or  *)
(* how often it was rolled, so two such blocks are equal exactly when they *)
(* were built the same way (a collision-free deck).  A byte is a literal   *)
(* value together with the set of keystream bytes XORed into it; XOR adds  *)
(* the literals bit by bit and cancels equal keystream bytes.              *)
(***************************************************************************)
EXTENDS Integers, Sequences, FiniteSets, TLC

VARIABLES
    cfg,      \* the instantiation: block size, tag size, alignment, key, iv
    snd,      \* the sending session
    rcv,      \* the receiving session
    wire,     \* the messages the sender produced, in order
    last,     \* the most recent call: its inputs, its result, the state before
    log,      \* the calls made on the receiving side so far, oldest first
    buffer    \* the caller's growable buffer (wide block cipher)

vars == <<cfg, snd, rcv, wire, last, log, buffer>>

-----------------------------------------------------------------------------
(* Bounds of the model.                                                    *)

MaxMsgs == 2      \* messages a sender encrypts in one session
MaxCalls == 2     \* decrypt calls a receiver makes in one session
MaxAdLen == 1     \* bytes of associated data
MaxPtLen == 2     \* bytes of plaintext in a session message
MaxBufLen == 6    \* bytes in the buffer handed to the wide block cipher
MaxOps == 3       \* calls made on one wide block cipher buffer

-----------------------------------------------------------------------------
(* Bytes and byte strings.                                                 *)

RECURSIVE XorBits(_, _, _)
XorBits(a, b, w) ==
    IF w = 0 THEN 0
    ELSE (((a % 2) + (b % 2)) % 2) + 2 * XorBits(a \div 2, b \div 2, w - 1)

RECURSIVE OrBits(_, _, _)
OrBits(a, b, w) ==
    IF w = 0 THEN 0
    ELSE (IF (a % 2) + (b % 2) > 0 THEN 1 ELSE 0) + 2 * OrBits(a \div 2, b \div 2, w - 1)

\* u8 ^ u8 and u8 | u8
XorU8(a, b) == XorBits(a, b, 8)
OrU8(a, b) == OrBits(a, b, 8)

RECURSIVE Pow2(_)
Pow2(n) == IF n = 0 THEN 1 ELSE 2 * Pow2(n - 1)

SymDiff(s, t) == (s \ t) \cup (t \ s)

\* a byte with literal value v and no keystream in it
Lit(v) == [v |-> v, ks |-> {}]

\* the XOR of two bytes
XorByte(a, b) == [v |-> XorU8(a.v, b.v), ks |-> SymDiff(a.ks, b.ks)]

RECURSIVE Zeros(_)
Zeros(n) == IF n = 0 THEN <<>> ELSE <<Lit(0)>> \o Zeros(n - 1)

RECURSIVE LitSeq(_)
LitSeq(s) == IF s = <<>> THEN <<>> ELSE <<Lit(Head(s))>> \o LitSeq(Tail(s))

\* a[i] ^= b[i] for every i below the shorter length; the rest of a is kept
RECURSIVE XorSeq(_, _)
XorSeq(a, b) ==
    IF a = <<>> THEN <<>>
    ELSE IF b = <<>> THEN a
    ELSE <<XorByte(Head(a), Head(b))>> \o XorSeq(Tail(a), Tail(b))

Take(s, n) == SubSeq(s, 1, n)
Drop(s, n) == SubSeq(s, n + 1, Len(s))
Min(a, b) == IF a < b THEN a ELSE b

\* all literal byte strings over alphabet A of length at most n
RECURSIVE StringsUpTo(_, _)
StringsUpTo(A, n) ==
    IF n = 0 THEN {<<>>}
    ELSE LET S == StringsUpTo(A, n - 1)
         IN  S \cup {<<a>> \o s : a \in A, s \in {t \in S : Len(t) = n - 1}}

-----------------------------------------------------------------------------
(* Farfalle (src/src/farfalle.rs).  A deck is [k, x]: the key mask and the *)
(* accumulator.  The mask is [pb, roll]: Pb of the padded key, rolled      *)
(* `roll` times by Rc.  The accumulator is the XOR of the terms Pc(m ^ k), *)
(* kept as the set of the pairs [m, k] that have not cancelled.            *)

\* what a call that panics returns
Panic == [panic |-> TRUE]

\* new as it would be if a key of the full block width were let through
new_accepts_full_width(B, key) ==
    IF ~(Len(key) <= B) THEN Panic
    ELSE [k |-> [pb |-> Take(LitSeq(key) \o <<Lit(128)>> \o Zeros(B), B),
                 roll |-> 0],
          x |-> {}]

\* Farfalle::new: K::USIZE < B::USIZE is asserted; k = Pb(key || 0x80 || 0*)
new(B, key) ==
    IF ~(Len(key) < B) THEN Panic
    ELSE [k |-> [pb |-> LitSeq(key) \o <<Lit(128)>> \o Zeros(B - Len(key) - 1),
                 roll |-> 0],
          x |-> {}]

\* Rc applied to the mask
rollc(k) == [k EXCEPT !.roll = @ + 1]

\* Farfalle::update_block: m ^= k; k = Rc(k); x ^= Pc(m)
update_block(d, m) ==
    [k |-> rollc(d.k), x |-> SymDiff(d.x, {[m |-> m, k |-> d.k]})]

\* UpdateCore::update_blocks: update_block on each block in order
RECURSIVE update_blocks(_, _)
update_blocks(d, blocks) ==
    IF blocks = <<>> THEN d
    ELSE update_blocks(update_block(d, Head(blocks)), Tail(blocks))

\* the blocks of B bytes that data holds, in order (a partial tail is left out)
RECURSIVE Chunks(_, _)
Chunks(B, data) ==
    IF Len(data) < B THEN <<>>
    ELSE <<Take(data, B)>> \o Chunks(B, Drop(data, B))

\* Buffer::digest_blocks of the eager block buffer: the pending bytes and the
\* input are cut into blocks, every full block is compressed at once, and the
\* tail, always shorter than a block, stays pending.  Result: <<deck, pending>>
digest_blocks(B, d, pending, input) ==
    LET data == pending \o input
        full == Chunks(B, data)
    IN  <<update_blocks(d, full), Drop(data, Len(full) * B)>>

\* finalize_xof_core as it would be if it worked on a copy of the deck and
\* left the deck itself as it was
finalize_keeps_deck(B, d, pending) ==
    LET n  == Len(pending)
        d1 == IF n > 0
              THEN update_block(d, pending \o <<Lit(128)>> \o Zeros(B - n - 1))
              ELSE d
        d2 == [d1 EXCEPT !.k = rollc(d1.k)]
    IN  <<d, [k |-> d2.k, y |-> [pd |-> d2.x, roll |-> 0]]>>

\* ExtendableOutputCore::finalize_xof_core: pending bytes, if any, are padded
\* with 0x80 and zeros and compressed; the mask is rolled; the reader gets the
\* rolled mask and y = Pd(x).  Result: <<deck, reader>>
finalize_xof_core(B, d, pending) ==
    LET n  == Len(pending)
        d1 == IF n > 0
              THEN update_block(d, pending \o <<Lit(128)>> \o Zeros(B - n - 1))
              ELSE d
        d2 == [d1 EXCEPT !.k = rollc(d1.k)]
    IN  <<d2, [k |-> d2.k, y |-> [pd |-> d2.x, roll |-> 0]]>>

\* byte i of the block Pe(y) ^ k
KeyByte(core, i) == [v |-> 0, ks |-> {[y |-> core.y, k |-> core.k, i |-> i]}]

RECURSIVE KeyBytes(_, _, _)
KeyBytes(core, i, B) ==
    IF i > B THEN <<>> ELSE <<KeyByte(core, i)>> \o KeyBytes(core, i + 1, B)

\* XofReaderCore::read_block: b = Pe(y) ^ k; y = Re(y).  Result: <<block, core>>
read_block(B, core) ==
    <<KeyBytes(core, 1, B), [core EXCEPT !.y.roll = @ + 1]>>

-----------------------------------------------------------------------------
(* The buffered reader (src/src/core_api.rs).  A reader is [core, buffer]: *)
(* the reader core and the bytes of the last block not yet handed out.     *)
(* sane.rs names its reader XofReaderCoreWrapperXor and calls k.xor(buf);  *)
(* that is taken to be this wrapper with the xor of core_api.rs.           *)

\* XofReaderCoreWrapper::from_core
from_core(core) == [core |-> core, buffer |-> <<>>]

\* XofReader::read for XofReaderCoreWrapper: n bytes, first the bytes left of
\* the last block, then fresh blocks.  Result: <<bytes, reader>>
RECURSIVE read(_, _, _)
read(B, r, n) ==
    IF n = 0 THEN <<(<<>>), r>>
    ELSE IF r.buffer = <<>>
         THEN LET b == read_block(B, r.core)
              IN  read(B, [core |-> b[2], buffer |-> b[1]], n)
         ELSE LET m    == Min(n, Len(r.buffer))
                  rest == read(B, [r EXCEPT !.buffer = Drop(r.buffer, m)], n - m)
              IN  <<Take(r.buffer, m) \o rest[1], rest[2]>>

\* xor: the next Len(buf) bytes of the reader are XORed over buf.
\* Result: <<buf, reader>>
xor(B, r, buf) ==
    LET ks == read(B, r, Len(buf))
    IN  <<XorSeq(buf, ks[1]), ks[2]>>

-----------------------------------------------------------------------------
(* Deck-SANE (src/src/sane.rs).  A session is [d, k, e].  The type         *)
(* parameters are the fields of c: block size B, tag size T, alignment A.  *)

\* usize::next_multiple_of
next_multiple_of(a, t) == ((a + t - 1) \div t) * t

\* the while loop of consume_tag.  Result: <<tag, reader, offset>>
RECURSIVE consume_tag_loop(_, _, _, _)
consume_tag_loop(c, tag, k, offset) ==
    IF offset > c.B
    THEN LET r == xor(c.B, k, tag)
         IN  consume_tag_loop(c, r[1], r[2], offset - c.B)
    ELSE <<tag, k, offset>>

\* consume_tag.  Result: <<tag, reader>>
consume_tag(c, k) ==
    LET offset == next_multiple_of(c.A, c.T)
        r1     == xor(c.B, k, Zeros(c.T))
        r2     == consume_tag_loop(c, r1[1], r1[2], offset - c.T)
        r3     == IF r2[3] > 0 THEN xor(c.B, r2[2], Zeros(r2[3]))
                  ELSE <<(<<>>), r2[2]>>
    IN  <<r2[1], r3[2]>>

\* apply_padded of sane.rs: m, then the separator byte, then finalize.
\* Result: <<deck, reader>>
sane_apply_padded(c, m, sep, d) ==
    LET b1 == digest_blocks(c.B, d, <<>>, m)
        b2 == digest_blocks(c.B, b1[1], b1[2], <<Lit(sep)>>)
        f  == finalize_xof_core(c.B, b2[1], b2[2])
    IN  <<f[1], from_core(f[2])>>

\* the delimiter of the associated data: e | 0x20
sane_ad_delimiter(e) == OrU8(e, 32)

\* the ciphertext delimiter as it would be with 0x60 written for 0xa0
sane_ct_delimiter_0x60(e) == OrU8(e, 96)

\* the delimiter of the ciphertext: e | 0xa0
sane_ct_delimiter(e) == OrU8(e, 160)

\* apply_ad_ct as it would be without the absorption of the associated data
\* in front of a ciphertext
apply_ad_ct_skips_ad(c, d, e, ad, ct) ==
    IF ct = <<>>
    THEN sane_apply_padded(c, ad, sane_ad_delimiter(e), d)
    ELSE sane_apply_padded(c, ct, sane_ct_delimiter(e), d)

\* apply_ad_ct as it would be if empty associated data were absorbed in front
\* of a ciphertext too
apply_ad_ct_absorbs_empty_ad(c, d, e, ad, ct) ==
    IF ct = <<>>
    THEN sane_apply_padded(c, ad, sane_ad_delimiter(e), d)
    ELSE sane_apply_padded(c, ct, sane_ct_delimiter(e),
             sane_apply_padded(c, ad, sane_ad_delimiter(e), d)[1])

\* apply_ad_ct.  Result: <<deck, reader>>
apply_ad_ct(c, d, e, ad, ct) ==
    IF ct = <<>>
    THEN sane_apply_padded(c, ad, sane_ad_delimiter(e), d)
    ELSE LET d1 == IF ad # <<>>
                   THEN sane_apply_padded(c, ad, sane_ad_delimiter(e), d)[1]
                   ELSE d
         IN  sane_apply_padded(c, ct, sane_ct_delimiter(e), d1)

\* KeyIvInit::new for DeckSane
sane_new(c, key, iv) ==
    LET d0 == new(c.B, key)
        b  == digest_blocks(c.B, d0, <<>>, iv)
        f  == finalize_xof_core(c.B, b[1], b[2])
        t  == consume_tag(c, from_core(f[2]))
    IN  [d |-> f[1], k |-> t[2], e |-> 0]

\* encrypt_inout_detached as it would be if the call left the session where
\* it was
sane_encrypt_keeps_session(c, self, ad, buf) ==
    LET ct == xor(c.B, self.k, buf)[1]
        a  == apply_ad_ct(c, self.d, self.e, ad, ct)
        t  == xor(c.B, a[2], Zeros(c.T))
    IN  [self |-> self, buf |-> ct, tag |-> t[1]]

\* DeckSane::encrypt_inout_detached.  Result: the session, the buffer, the tag
sane_encrypt_inout_detached(c, self, ad, buf) ==
    LET ct == xor(c.B, self.k, buf)
        a  == apply_ad_ct(c, self.d, self.e, ad, ct[1])
        t  == xor(c.B, a[2], Zeros(c.T))
    IN  [self |-> [d |-> a[1], k |-> t[2], e |-> XorU8(self.e, 64)],
         buf  |-> ct[1],
         tag  |-> t[1]]

\* decrypt_inout_detached as it would be if the new keystream were not
\* installed on success
sane_decrypt_keeps_keystream(c, self, ad, buf, tag) ==
    LET a  == apply_ad_ct(c, self.d, self.e, ad, buf)
        e1 == XorU8(self.e, 64)
        t  == xor(c.B, a[2], Zeros(c.T))
        p  == xor(c.B, self.k, buf)
    IN  IF tag # t[1]
        THEN [self |-> [d |-> a[1], k |-> self.k, e |-> e1], buf |-> buf, res |-> "Err"]
        ELSE [self |-> [d |-> a[1], k |-> p[2], e |-> e1], buf |-> p[1], res |-> "Ok"]

\* decrypt_inout_detached as it would be if the keystream were applied to the
\* buffer before the tag is compared
sane_decrypt_writes_first(c, self, ad, buf, tag) ==
    LET a  == apply_ad_ct(c, self.d, self.e, ad, buf)
        e1 == XorU8(self.e, 64)
        t  == xor(c.B, a[2], Zeros(c.T))
        p  == xor(c.B, self.k, buf)
    IN  IF tag # t[1]
        THEN [self |-> [d |-> a[1], k |-> p[2], e |-> e1], buf |-> p[1], res |-> "Err"]
        ELSE [self |-> [d |-> a[1], k |-> t[2], e |-> e1], buf |-> p[1], res |-> "Ok"]

\* decrypt_inout_detached as it would be if a failed call rolled the session back
sane_decrypt_rolls_back(c, self, ad, buf, tag) ==
    LET a  == apply_ad_ct(c, self.d, self.e, ad, buf)
        e1 == XorU8(self.e, 64)
        t  == xor(c.B, a[2], Zeros(c.T))
    IN  IF tag # t[1]
        THEN [self |-> self, buf |-> buf, res |-> "Err"]
        ELSE [self |-> [d |-> a[1], k |-> t[2], e |-> e1],
              buf  |-> xor(c.B, self.k, buf)[1],
              res  |-> "Ok"]

\* decrypt_inout_detached as it would be without the comparison of the tags
sane_decrypt_accepts_any_tag(c, self, ad, buf, tag) ==
    LET a  == apply_ad_ct(c, self.d, self.e, ad, buf)
        e1 == XorU8(self.e, 64)
        t  == xor(c.B, a[2], Zeros(c.T))
    IN  [self |-> [d |-> a[1], k |-> t[2], e |-> e1],
         buf  |-> xor(c.B, self.k, buf)[1],
         res  |-> "Ok"]

\* DeckSane::decrypt_inout_detached.  Result: the session, the buffer, Ok/Err
sane_decrypt_inout_detached(c, self, ad, buf, tag) ==
    LET a  == apply_ad_ct(c, self.d, self.e, ad, buf)
        e1 == XorU8(self.e, 64)
        t  == xor(c.B, a[2], Zeros(c.T))
    IN  IF tag # t[1]
        THEN [self |-> [d |-> a[1], k |-> self.k, e |-> e1],
              buf  |-> buf,
              res  |-> "Err"]
        ELSE [self |-> [d |-> a[1], k |-> t[2], e |-> e1],
              buf  |-> xor(c.B, self.k, buf)[1],
              res  |-> "Ok"]

-----------------------------------------------------------------------------
(* Deck-SANSE (src/src/sanse.rs).  A session is [d, e].  The type          *)
(* parameters are the fields of c: block size B and tag size T.            *)

\* KeyStream::read and the reads of KeyStream::xor_in2out: the first n bytes
\* of the reader, whole blocks and then the head of one more block
RECURSIVE keystream(_, _, _)
keystream(B, core, n) ==
    IF n = 0 THEN <<>>
    ELSE LET b == read_block(B, core)
         IN  IF n >= B THEN b[1] \o keystream(B, b[2], n - B)
             ELSE Take(b[1], n)

\* KeyStream::read_tag
read_tag(c, core) == keystream(c.B, core, c.T)

\* KeyStream::xor_in2out
xor_in2out(c, core, buf) == XorSeq(buf, keystream(c.B, core, Len(buf)))

\* apply_padded of sanse.rs.  Result: <<deck, reader core>>
apply_padded(c, d, m, sep) ==
    LET b1 == digest_blocks(c.B, d, <<>>, m)
        b2 == digest_blocks(c.B, b1[1], b1[2], <<Lit(sep)>>)
    IN  finalize_xof_core(c.B, b2[1], b2[2])

\* the delimiter of the associated data: e
sanse_ad_delimiter(e) == e

\* the delimiter of the plaintext: e | 0x40
sanse_pt_delimiter(e) == OrU8(e, 64)

\* the delimiter of the tag, for the keystream: e | 0xc0
sanse_tag_delimiter(e) == OrU8(e, 192)

\* DeckSanse::init
sanse_init(c, key) == [d |-> new(c.B, key), e |-> 0]

\* encrypt_inout_detached as it would be if the direction bit were flipped
\* with 0x40
sanse_encrypt_flips_0x40(c, self, ad, buf) ==
    LET e  == self.e
        e1 == XorU8(self.e, 64)
    IN  IF buf = <<>>
        THEN LET a == apply_padded(c, self.d, ad, sanse_ad_delimiter(e))
             IN  [self |-> [d |-> a[1], e |-> e1], buf |-> buf,
                  tag |-> read_tag(c, a[2])]
        ELSE LET d1     == IF ad # <<>> THEN apply_padded(c, self.d, ad, sanse_ad_delimiter(e))[1]
                           ELSE self.d
                 d_copy == d1
                 p      == apply_padded(c, d1, buf, sanse_pt_delimiter(e))
                 tag    == read_tag(c, p[2])
                 k      == apply_padded(c, d_copy, tag, sanse_tag_delimiter(e))
             IN  [self |-> [d |-> p[1], e |-> e1],
                  buf  |-> xor_in2out(c, k[2], buf),
                  tag  |-> tag]

\* encrypt_inout_detached as it would be without the clone: the tag is
\* absorbed into the session history after the plaintext
sanse_encrypt_without_clone(c, self, ad, buf) ==
    LET e  == self.e
        e1 == XorU8(self.e, 32)
    IN  IF buf = <<>>
        THEN LET a == apply_padded(c, self.d, ad, sanse_ad_delimiter(e))
             IN  [self |-> [d |-> a[1], e |-> e1], buf |-> buf,
                  tag |-> read_tag(c, a[2])]
        ELSE LET d1     == IF ad # <<>> THEN apply_padded(c, self.d, ad, sanse_ad_delimiter(e))[1]
                           ELSE self.d
                 p      == apply_padded(c, d1, buf, sanse_pt_delimiter(e))
                 tag    == read_tag(c, p[2])
                 k      == apply_padded(c, p[1], tag, sanse_tag_delimiter(e))
             IN  [self |-> [d |-> k[1], e |-> e1],
                  buf  |-> xor_in2out(c, k[2], buf),
                  tag  |-> tag]

\* DeckSanse::encrypt_inout_detached.  Result: the session, the buffer, the tag
sanse_encrypt_inout_detached(c, self, ad, buf) ==
    LET e  == self.e
        e1 == XorU8(self.e, 32)
    IN  IF buf = <<>>
        THEN LET a == apply_padded(c, self.d, ad, sanse_ad_delimiter(e))
             IN  [self |-> [d |-> a[1], e |-> e1], buf |-> buf,
                  tag |-> read_tag(c, a[2])]
        ELSE LET d1     == IF ad # <<>> THEN apply_padded(c, self.d, ad, sanse_ad_delimiter(e))[1]
                           ELSE self.d
                 d_copy == d1
                 p      == apply_padded(c, d1, buf, sanse_pt_delimiter(e))
                 tag    == read_tag(c, p[2])
                 k      == apply_padded(c, d_copy, tag, sanse_tag_delimiter(e))
             IN  [self |-> [d |-> p[1], e |-> e1],
                  buf  |-> xor_in2out(c, k[2], buf),
                  tag  |-> tag]

\* decrypt_inout_detached as it would be if the keystream were derived with
\* the plaintext delimiter
sanse_decrypt_wrong_delimiter(c, self, ad, buf, tag) ==
    LET e  == self.e
        e1 == XorU8(self.e, 32)
    IN  IF buf = <<>>
        THEN LET a == apply_padded(c, self.d, ad, sanse_ad_delimiter(e))
             IN  [self |-> [d |-> a[1], e |-> e1], buf |-> buf,
                  res |-> IF tag # read_tag(c, a[2]) THEN "Err" ELSE "Ok"]
        ELSE LET d1     == IF ad # <<>> THEN apply_padded(c, self.d, ad, sanse_ad_delimiter(e))[1]
                           ELSE self.d
                 k      == apply_padded(c, d1, tag, sanse_pt_delimiter(e))
                 pt     == xor_in2out(c, k[2], buf)
                 p      == apply_padded(c, d1, pt, sanse_pt_delimiter(e))
             IN  IF tag # read_tag(c, p[2])
                 THEN [self |-> [d |-> p[1], e |-> e1],
                       buf |-> xor_in2out(c, k[2], pt), res |-> "Err"]
                 ELSE [self |-> [d |-> p[1], e |-> e1], buf |-> pt, res |-> "Ok"]

\* decrypt_inout_detached as it would be without the second application of the
\* keystream on failure
sanse_decrypt_leaves_plaintext(c, self, ad, buf, tag) ==
    LET e  == self.e
        e1 == XorU8(self.e, 32)
    IN  IF buf = <<>>
        THEN LET a == apply_padded(c, self.d, ad, sanse_ad_delimiter(e))
             IN  [self |-> [d |-> a[1], e |-> e1], buf |-> buf,
                  res |-> IF tag # read_tag(c, a[2]) THEN "Err" ELSE "Ok"]
        ELSE LET d1     == IF ad # <<>> THEN apply_padded(c, self.d, ad, sanse_ad_delimiter(e))[1]
                           ELSE self.d
                 k      == apply_padded(c, d1, tag, sanse_tag_delimiter(e))
                 pt     == xor_in2out(c, k[2], buf)
                 p      == apply_padded(c, d1, pt, sanse_pt_delimiter(e))
             IN  [self |-> [d |-> p[1], e |-> e1], buf |-> pt,
                  res |-> IF tag # read_tag(c, p[2]) THEN "Err" ELSE "Ok"]

\* decrypt_inout_detached as it would be if an empty buffer were
\* authenticated under the plaintext delimiter
sanse_decrypt_empty_as_plaintext(c, self, ad, buf, tag) ==
    LET e  == self.e
        e1 == XorU8(self.e, 32)
    IN  IF buf = <<>>
        THEN LET a == apply_padded(c, self.d, ad, sanse_pt_delimiter(e))
             IN  [self |-> [d |-> a[1], e |-> e1], buf |-> buf,
                  res |-> IF tag # read_tag(c, a[2]) THEN "Err" ELSE "Ok"]
        ELSE LET d1     == IF ad # <<>> THEN apply_padded(c, self.d, ad, sanse_ad_delimiter(e))[1]
                           ELSE self.d
                 d_copy == d1
                 k      == apply_padded(c, d_copy, tag, sanse_tag_delimiter(e))
                 pt     == xor_in2out(c, k[2], buf)
                 p      == apply_padded(c, d1, pt, sanse_pt_delimiter(e))
             IN  IF tag # read_tag(c, p[2])
                 THEN [self |-> [d |-> p[1], e |-> e1],
                       buf  |-> xor_in2out(c, k[2], pt),
                       res  |-> "Err"]
                 ELSE [self |-> [d |-> p[1], e |-> e1], buf |-> pt, res |-> "Ok"]

\* decrypt_inout_detached as it would be if a failed call put the deck back
sanse_decrypt_rolls_back(c, self, ad, buf, tag) ==
    LET e  == self.e
        e1 == XorU8(self.e, 32)
    IN  IF buf = <<>>
        THEN LET a  == apply_padded(c, self.d, ad, sanse_ad_delimiter(e))
                 ok == tag = read_tag(c, a[2])
             IN  [self |-> [d |-> IF ok THEN a[1] ELSE self.d, e |-> e1], buf |-> buf,
                  res |-> IF ok THEN "Ok" ELSE "Err"]
        ELSE LET d1     == IF ad # <<>> THEN apply_padded(c, self.d, ad, sanse_ad_delimiter(e))[1]
                           ELSE self.d
                 d_copy == d1
                 k      == apply_padded(c, d_copy, tag, sanse_tag_delimiter(e))
                 pt     == xor_in2out(c, k[2], buf)
                 p      == apply_padded(c, d1, pt, sanse_pt_delimiter(e))
             IN  IF tag # read_tag(c, p[2])
                 THEN [self |-> [d |-> self.d, e |-> e1],
                       buf  |-> xor_in2out(c, k[2], pt),
                       res  |-> "Err"]
                 ELSE [self |-> [d |-> p[1], e |-> e1], buf |-> pt, res |-> "Ok"]

\* DeckSanse::decrypt_inout_detached.  Result: the session, the buffer, Ok/Err
sanse_decrypt_inout_detached(c, self, ad, buf, tag) ==
    LET e  == self.e
        e1 == XorU8(self.e, 32)
    IN  IF buf = <<>>
        THEN LET a == apply_padded(c, self.d, ad, sanse_ad_delimiter(e))
             IN  [self |-> [d |-> a[1], e |-> e1], buf |-> buf,
                  res |-> IF tag # read_tag(c, a[2]) THEN "Err" ELSE "Ok"]
        ELSE LET d1     == IF ad # <<>> THEN apply_padded(c, self.d, ad, sanse_ad_delimiter(e))[1]
                           ELSE self.d
                 d_copy == d1
                 k      == apply_padded(c, d_copy, tag, sanse_tag_delimiter(e))
                 pt     == xor_in2out(c, k[2], buf)
                 p      == apply_padded(c, d1, pt, sanse_pt_delimiter(e))
             IN  IF tag # read_tag(c, p[2])
                 THEN [self |-> [d |-> p[1], e |-> e1],
                       buf  |-> xor_in2out(c, k[2], pt),
                       res  |-> "Err"]
                 ELSE [self |-> [d |-> p[1], e |-> e1], buf |-> pt, res |-> "Ok"]

-----------------------------------------------------------------------------
(* The wide block cipher (src/src/wbc.rs).  A cipher is [g, h].  The type  *)
(* parameters are the fields of c: block size B, alignment L and, for the  *)
(* authenticated cipher, the tag size T.  G and H are the same deck type.  *)
(* The growable buffer is a Vec: extend_from_slice does not fail.          *)

\* WideBlockCipher::init
wbc_init(c, key) == [g |-> new(c.B, key), h |-> new(c.B, key)]

\* usize::ilog2 of a positive number
RECURSIVE ilog2(_)
ilog2(n) == IF n <= 1 THEN 0 ELSE 1 + ilog2(n \div 2)

\* usize::div_ceil
div_ceil(a, b) == (a + b - 1) \div b

\* the two assertions of split
split_asserts(c) == c.B % c.L = 0 /\ c.L >= 2

\* split as it would be with q - 2^x for (q - 1) << x
split_q_minus_pow2(c, n) ==
    LET l == c.L
        b == c.B
    IN  IF n <= 2 * b - (l + 2)
        THEN ((n + l) \div (2 * l)) * l
        ELSE LET q == div_ceil(n + l + 1, b)
                 x == ilog2(q - 1)
             IN  (q - Pow2(x)) * b - l

\* split; `q - 1 << x` is (q - 1) << x
split(c, n) ==
    LET l == c.L
        b == c.B
    IN  IF n <= 2 * b - (l + 2)
        THEN ((n + l) \div (2 * l)) * l
        ELSE LET q == div_ceil(n + l + 1, b)
                 x == ilog2(q - 1)
             IN  ((q - 1) * Pow2(x)) * b - l

\* the deck g after the tweak: digest_blocks and finalize_xof_core
absorb_tweak(c, g, tweak) ==
    LET t == digest_blocks(c.B, g, <<>>, tweak)
    IN  finalize_xof_core(c.B, t[1], t[2])[1]

\* the keystream of the reader XORed over the first m bytes of buf
xor_head(c, core, buf, m) == xor_in2out(c, core, Take(buf, m)) \o Drop(buf, m)

\* WideBlockCipher::encrypt_inout.  Result: [res, buf]; split_at_mut panics
\* when the split point is beyond the buffer
encrypt_inout(c, self, tweak, buf) ==
    LET g  == absorb_tweak(c, self.g, tweak)
        h  == self.h
        n  == Len(buf)
        s  == split(c, n)
    IN  IF ~split_asserts(c) \/ s > n THEN [res |-> "panic", buf |-> buf]
        ELSE LET left0  == Take(buf, s)
                 right0 == Drop(buf, s)
                 right1 == xor_head(c, apply_padded(c, h, left0, 0)[2], right0,
                                    Min(c.B, n - s))
                 left1  == xor_in2out(c, apply_padded(c, g, right1, 128)[2], left0)
                 right2 == xor_in2out(c, apply_padded(c, g, left1, 0)[2], right1)
                 left2  == xor_head(c, apply_padded(c, h, right2, 128)[2], left1,
                                    Min(c.B, s))
             IN  [res |-> "ok", buf |-> left2 \o right2]

\* WideBlockCipher::decrypt_inout.  Result: [res, buf]
decrypt_inout(c, self, tweak, buf) ==
    LET g  == absorb_tweak(c, self.g, tweak)
        h  == self.h
        n  == Len(buf)
        s  == split(c, n)
    IN  IF ~split_asserts(c) \/ s > n THEN [res |-> "panic", buf |-> buf]
        ELSE LET left0  == Take(buf, s)
                 right0 == Drop(buf, s)
                 left1  == xor_head(c, apply_padded(c, h, right0, 128)[2], left0,
                                    Min(c.B, s))
                 right1 == xor_in2out(c, apply_padded(c, g, left1, 0)[2], right0)
                 left2  == xor_in2out(c, apply_padded(c, g, right1, 128)[2], left1)
                 right2 == xor_head(c, apply_padded(c, h, left2, 0)[2], right1,
                                    Min(c.B, n - s))
             IN  [res |-> "ok", buf |-> left2 \o right2]

\* WideBlockCipherAuthenticated::encrypt_in_place.  Result: [res, buf]
encrypt_in_place(c, self, tweak, buf) ==
    LET r == encrypt_inout(c, self, tweak, buf \o Zeros(c.T))
    IN  IF r.res = "panic" THEN r ELSE [res |-> "Ok", buf |-> r.buf]

\* decrypt_in_place as it would be without the re-encryption on failure
decrypt_in_place_no_restore(c, self, tweak, buf) ==
    IF Len(buf) < c.T THEN [res |-> "Err", buf |-> buf]
    ELSE LET n == Len(buf) - c.T
             d == decrypt_inout(c, self, tweak, buf)
         IN  IF d.res = "panic" THEN d
             ELSE IF Drop(d.buf, n) # Zeros(c.T)
             THEN [res |-> "Err", buf |-> d.buf]
             ELSE [res |-> "Ok", buf |-> Take(d.buf, n)]

\* decrypt_in_place as it would be if a buffer shorter than the tag were run
\* through the network before being rejected
decrypt_in_place_runs_short_buffer(c, self, tweak, buf) ==
    IF Len(buf) < c.T
    THEN LET d == decrypt_inout(c, self, tweak, buf)
         IN  IF d.res = "panic" THEN d ELSE [res |-> "Err", buf |-> d.buf]
    ELSE LET n == Len(buf) - c.T
             d == decrypt_inout(c, self, tweak, buf)
         IN  IF d.res = "panic" THEN d
             ELSE IF Drop(d.buf, n) # Zeros(c.T)
             THEN LET r == encrypt_inout(c, self, tweak, d.buf)
                  IN  IF r.res = "panic" THEN r ELSE [res |-> "Err", buf |-> r.buf]
             ELSE [res |-> "Ok", buf |-> Take(d.buf, n)]

\* WideBlockCipherAuthenticated::decrypt_in_place.  Result: [res, buf]
decrypt_in_place(c, self, tweak, buf) ==
    IF Len(buf) < c.T THEN [res |-> "Err", buf |-> buf]
    ELSE LET n == Len(buf) - c.T
             d == decrypt_inout(c, self, tweak, buf)
         IN  IF d.res = "panic" THEN d
             ELSE IF Drop(d.buf, n) # Zeros(c.T)
             THEN LET r == encrypt_inout(c, self, tweak, d.buf)
                  IN  IF r.res = "panic" THEN r ELSE [res |-> "Err", buf |-> r.buf]
             ELSE [res |-> "Ok", buf |-> Take(d.buf, n)]

-----------------------------------------------------------------------------
(* Inputs.                                                                 *)

\* the byte values callers put in associated data and plaintext
InBytes == {97}

\* the bit positions a tampering channel flips: the lowest and the highest
Bits == {0, 7}

Ads == {LitSeq(s) : s \in StringsUpTo(InBytes, MaxAdLen)}
Pts == {LitSeq(s) : s \in StringsUpTo(InBytes, MaxPtLen)}

\* s with bit `bit` of byte `pos` flipped
FlipBit(s, pos, bit) == [s EXCEPT ![pos] = XorByte(@, Lit(Pow2(bit)))]

NoTamper == [kind |-> "none", pos |-> 0, bit |-> 0]

\* what a channel can do to a message: nothing, or flip one bit of it
Tampers(m) ==
    {NoTamper}
    \cup {[kind |-> "tag", pos |-> p, bit |-> b] : p \in 1..Len(m.tag), b \in Bits}
    \cup {[kind |-> "ct", pos |-> p, bit |-> b] : p \in 1..Len(m.ct), b \in Bits}
    \cup {[kind |-> "ad", pos |-> p, bit |-> b] : p \in 1..Len(m.ad), b \in Bits}

\* the message as the receiver gets it
Tampered(m, t) ==
    [ad  |-> IF t.kind = "ad" THEN FlipBit(m.ad, t.pos, t.bit) ELSE m.ad,
     ct  |-> IF t.kind = "ct" THEN FlipBit(m.ct, t.pos, t.bit) ELSE m.ct,
     tag |-> IF t.kind = "tag" THEN FlipBit(m.tag, t.pos, t.bit) ELSE m.tag]

\* the receiver has so far been given exactly the sender's messages, in order
Mirrored(l) == \A j \in 1..Len(l) : l[j].i = j /\ l[j].t = NoTamper

NoCall == [op |-> "none"]

-----------------------------------------------------------------------------
(* Two Deck-SANE sessions with the same key and IV, and a channel.         *)

SaneConfigs ==
    {[B |-> 2, T |-> 1, A |-> 2, key |-> <<1>>, iv |-> <<>>],
     [B |-> 3, T |-> 2, A |-> 4, key |-> <<1, 2>>, iv |-> <<9>>]}

InitSane ==
    /\ cfg \in SaneConfigs
    /\ snd = sane_new(cfg, cfg.key, LitSeq(cfg.iv))
    /\ rcv = sane_new(cfg, cfg.key, LitSeq(cfg.iv))
    /\ wire = <<>>
    /\ last = NoCall
    /\ log = <<>>
    /\ buffer = <<>>

\* the sender encrypts (ad, pt) and puts the result on the channel
SaneEncrypt ==
    /\ Len(wire) < MaxMsgs
    /\ \E ad \in Ads, pt \in Pts :
         LET r == sane_encrypt_inout_detached(cfg, snd, ad, pt)
         IN  /\ snd' = r.self
             /\ wire' = Append(wire, [ad |-> ad, pt |-> pt, ct |-> r.buf, tag |-> r.tag])
             /\ last' = [op |-> "sane_encrypt", ad |-> ad, buf |-> pt, pre |-> snd,
                         out |-> r.buf, tag |-> r.tag]
    /\ UNCHANGED <<cfg, rcv, log, buffer>>

\* the receiver decrypts message i of the channel, as tampered by t
SaneDecrypt ==
    /\ Len(log) < MaxCalls
    /\ \E i \in 1..Len(wire) : \E t \in Tampers(wire[i]) :
         LET m == Tampered(wire[i], t)
             r == sane_decrypt_inout_detached(cfg, rcv, m.ad, m.ct, m.tag)
         IN  /\ rcv' = r.self
             /\ log' = Append(log, [i |-> i, t |-> t, res |-> r.res])
             /\ last' = [op |-> "sane_decrypt", i |-> i, t |-> t,
                         ad |-> m.ad, buf |-> m.ct, tag |-> m.tag,
                         pre |-> rcv, next |-> Mirrored(log) /\ i = Len(log) + 1,
                         res |-> r.res, out |-> r.buf]
    /\ UNCHANGED <<cfg, snd, wire, buffer>>

NextSane == SaneEncrypt \/ SaneDecrypt

SpecSane == InitSane /\ [][NextSane]_vars

-----------------------------------------------------------------------------
(* Properties of the Deck-SANE sessions.                                   *)

\* C1: a receiver that has been given exactly the sender's messages so far,
\* in order, and is given the next one unchanged, answers Ok and leaves the
\* sender's plaintext in the buffer.
SaneRoundTrip ==
    (last.op = "sane_decrypt" /\ last.next /\ last.t = NoTamper)
        => (last.res = "Ok" /\ last.out = wire[last.i].pt)

\* the second message of a session, with associated data and a plaintext of
\* two bytes, has been decrypted in lockstep
SaneRoundTripWitness ==
    /\ last.op = "sane_decrypt" /\ last.next /\ last.t = NoTamper
    /\ last.i = 2 /\ Len(last.buf) = 2 /\ last.ad # <<>>
    /\ Len(wire[1].pt) > 0

\* C7: a decrypt that answers Err has left the buffer and the session
\* keystream reader k exactly as they were before the call.
SaneFailureFrame ==
    (last.op = "sane_decrypt" /\ last.res = "Err")
        => (last.out = last.buf /\ rcv.k = last.pre.k)

\* a decrypt of a non-empty buffer has answered Err
SaneFailureFrameWitness ==
    last.op = "sane_decrypt" /\ last.res = "Err" /\ Len(last.buf) = 2

\* C8: a decrypt that answers Err has advanced d and e as the decrypt of the
\* same associated data and ciphertext under the matching tag would have
\* (the same absorptions, e flipped by 0x40), and has kept the keystream, so
\* the session is neither the one before the call nor the one a successful
\* call leaves.
SaneFailureAdvances ==
    (last.op = "sane_decrypt" /\ last.res = "Err")
        => LET a    == apply_ad_ct(cfg, last.pre.d, last.pre.e, last.ad, last.buf)
               good == xor(cfg.B, a[2], Zeros(cfg.T))[1]
               ok   == sane_decrypt_inout_detached(cfg, last.pre, last.ad, last.buf, good)
           IN  /\ ok.res = "Ok"
               /\ rcv.d = ok.self.d /\ rcv.d # last.pre.d
               /\ rcv.e = ok.self.e /\ rcv.e = XorU8(last.pre.e, 64)
               /\ rcv.k = last.pre.k /\ rcv.k # ok.self.k
               /\ rcv # last.pre /\ rcv # ok.self

\* a decrypt with associated data and a ciphertext has answered Err as the
\* second call of its session
SaneFailureAdvancesWitness ==
    /\ last.op = "sane_decrypt" /\ last.res = "Err"
    /\ last.ad # <<>> /\ last.buf # <<>> /\ Len(log) = 2

\* C9: a receiver in lockstep that is given the next message with one bit
\* of its tag, ciphertext or associated data flipped answers Err.
SaneTamperDetected ==
    (last.op = "sane_decrypt" /\ last.next /\ last.t # NoTamper)
        => last.res = "Err"

\* the second message has reached a receiver in lockstep with a bit of its
\* associated data flipped
SaneTamperDetectedWitness ==
    /\ last.op = "sane_decrypt" /\ last.next /\ last.i = 2
    /\ last.t.kind = "ad" /\ last.buf # <<>>

-----------------------------------------------------------------------------
(* Two Deck-SANSE sessions with the same key, and a channel.               *)

SanseConfigs ==
    {[B |-> 2, T |-> 1, key |-> <<1>>],
     [B |-> 3, T |-> 2, key |-> <<1, 2>>]}

InitSanse ==
    /\ cfg \in SanseConfigs
    /\ snd = sanse_init(cfg, cfg.key)
    /\ rcv = sanse_init(cfg, cfg.key)
    /\ wire = <<>>
    /\ last = NoCall
    /\ log = <<>>
    /\ buffer = <<>>

\* the sender encrypts (ad, pt) and puts the result on the channel
SanseEncrypt ==
    /\ Len(wire) < MaxMsgs
    /\ \E ad \in Ads, pt \in Pts :
         LET r == sanse_encrypt_inout_detached(cfg, snd, ad, pt)
         IN  /\ snd' = r.self
             /\ wire' = Append(wire, [ad |-> ad, pt |-> pt, ct |-> r.buf, tag |-> r.tag])
             /\ last' = [op |-> "sanse_encrypt", ad |-> ad, buf |-> pt, pre |-> snd,
                         out |-> r.buf, tag |-> r.tag]
    /\ UNCHANGED <<cfg, rcv, log, buffer>>

\* the receiver decrypts message i of the channel, as tampered by t
SanseDecrypt ==
    /\ Len(log) < MaxCalls
    /\ \E i \in 1..Len(wire) : \E t \in Tampers(wire[i]) :
         LET m == Tampered(wire[i], t)
             r == sanse_decrypt_inout_detached(cfg, rcv, m.ad, m.ct, m.tag)
         IN  /\ rcv' = r.self
             /\ log' = Append(log, [i |-> i, t |-> t, res |-> r.res])
             /\ last' = [op |-> "sanse_decrypt", i |-> i, t |-> t,
                         ad |-> m.ad, buf |-> m.ct, tag |-> m.tag,
                         pre |-> rcv, next |-> Mirrored(log) /\ i = Len(log) + 1,
                         res |-> r.res, out |-> r.buf]
    /\ UNCHANGED <<cfg, snd, wire, buffer>>

NextSanse == SanseEncrypt \/ SanseDecrypt

SpecSanse == InitSanse /\ [][NextSanse]_vars

\* C2: a DeckSanse receiver that has been given exactly the sender's messages
\* so far, in order, and is given the next one unchanged, answers Ok and
\* leaves the sender's plaintext in the buffer.
SanseRoundTrip ==
    (last.op = "sanse_decrypt" /\ last.next /\ last.t = NoTamper)
        => (last.res = "Ok" /\ last.out = wire[last.i].pt)

\* the second message of a session, with associated data and a plaintext of
\* two bytes, has been decrypted in lockstep
SanseRoundTripWitness ==
    /\ last.op = "sanse_decrypt" /\ last.next /\ last.t = NoTamper
    /\ last.i = 2 /\ Len(last.buf) = 2 /\ last.ad # <<>>
    /\ Len(wire[1].pt) > 0

\* C5: a DeckSanse decrypt that answers Err leaves in the buffer the bytes
\* that were in it before the call.
SanseFailureRestores ==
    (last.op = "sanse_decrypt" /\ last.res = "Err") => last.out = last.buf

\* a decrypt of a buffer of two bytes has answered Err
SanseFailureRestoresWitness ==
    last.op = "sanse_decrypt" /\ last.res = "Err" /\ Len(last.buf) = 2

-----------------------------------------------------------------------------
(* A buffer and the wide block cipher calls made on it, one after another. *)

WbcConfigs ==
    {[B |-> 4, L |-> 2, T |-> 1, key |-> <<1>>],
     [B |-> 2, L |-> 2, T |-> 1, key |-> <<1>>]}

Tweaks == {<<>>, LitSeq(<<5>>)}

WbcBufs == {LitSeq(s) : s \in StringsUpTo(InBytes, MaxBufLen)}

InitWbc ==
    /\ cfg \in WbcConfigs
    /\ buffer \in WbcBufs
    /\ snd = <<>>
    /\ rcv = <<>>
    /\ wire = <<>>
    /\ last = NoCall
    /\ log = <<>>

\* a call may follow unless the program has panicked or the bound is reached
CanCall == Len(log) < MaxOps /\ (last.op # "none" => last.res # "panic")

\* the call is recorded and the buffer is what the call left
Called(op, tweak, r) ==
    /\ buffer' = r.buf
    /\ last' = [op |-> op, tweak |-> tweak, pre |-> buffer, res |-> r.res]
    /\ log' = Append(log, last')
    /\ UNCHANGED <<cfg, snd, rcv, wire>>

WbcEncryptInout ==
    /\ CanCall
    /\ \E tweak \in Tweaks :
         Called("encrypt_inout", tweak,
                encrypt_inout(cfg, wbc_init(cfg, cfg.key), tweak, buffer))

WbcDecryptInout ==
    /\ CanCall
    /\ \E tweak \in Tweaks :
         Called("decrypt_inout", tweak,
                decrypt_inout(cfg, wbc_init(cfg, cfg.key), tweak, buffer))

WbcEncryptInPlace ==
    /\ CanCall
    /\ \E tweak \in Tweaks :
         Called("encrypt_in_place", tweak,
                encrypt_in_place(cfg, wbc_init(cfg, cfg.key), tweak, buffer))

WbcDecryptInPlace ==
    /\ CanCall
    /\ \E tweak \in Tweaks :
         Called("decrypt_in_place", tweak,
                decrypt_in_place(cfg, wbc_init(cfg, cfg.key), tweak, buffer))

\* one bit of the buffer is flipped between two calls
WbcTamper ==
    /\ CanCall
    /\ last.op \notin {"none", "tamper"}
    /\ \E p \in 1..Len(buffer), b \in Bits :
         Called("tamper", <<>>, [res |-> "ok", buf |-> FlipBit(buffer, p, b)])

NextWbc ==
    \/ WbcEncryptInout
    \/ WbcDecryptInout
    \/ WbcEncryptInPlace
    \/ WbcDecryptInPlace
    \/ WbcTamper

SpecWbc == InitWbc /\ [][NextWbc]_vars

\* the call before the last one
Before == log[Len(log) - 1]

\* the last two calls were op1 and then op2, with the same tweak
Pair(op1, op2) ==
    /\ Len(log) >= 2
    /\ Before.op = op1 /\ last.op = op2
    /\ Before.tweak = last.tweak

-----------------------------------------------------------------------------
(* Properties of the wide block cipher.                                    *)

\* C3: for every tweak and every buffer of any length, encrypt_inout yields
\* an output, and decrypt_inout with the same tweak on that output yields the
\* original buffer.
WbcRoundTrip ==
    /\ last.op = "encrypt_inout" => last.res = "ok"
    /\ Pair("encrypt_inout", "decrypt_inout")
           => (last.res = "ok" /\ buffer = Before.pre)

\* the part of C3 the code keeps: when encrypt_inout returns, decrypt_inout
\* with the same tweak returns the original buffer
WbcRoundTripWhenReturned ==
    (Pair("encrypt_inout", "decrypt_inout") /\ Before.res = "ok")
        => (last.res = "ok" /\ buffer = Before.pre)

\* a buffer of five bytes has been encrypted and decrypted under a tweak
WbcRoundTripWhenReturnedWitness ==
    /\ Pair("encrypt_inout", "decrypt_inout") /\ Before.res = "ok"
    /\ Len(Before.pre) = 5 /\ last.tweak # <<>>

\* C4: for every tweak and plaintext, encrypt_in_place returns Ok with the
\* buffer T bytes longer, and decrypt_in_place with the same tweak on the
\* result returns Ok with the original plaintext in the buffer.
WbcAuthRoundTrip ==
    /\ last.op = "encrypt_in_place"
           => (last.res = "Ok" /\ Len(buffer) = Len(last.pre) + cfg.T)
    /\ Pair("encrypt_in_place", "decrypt_in_place")
           => (last.res = "Ok" /\ buffer = Before.pre)

\* the part of C4 the code keeps: when encrypt_in_place returns, the buffer
\* is T bytes longer and decrypt_in_place gives the plaintext back
WbcAuthRoundTripWhenReturned ==
    /\ (last.op = "encrypt_in_place" /\ last.res # "panic")
           => (last.res = "Ok" /\ Len(buffer) = Len(last.pre) + cfg.T)
    /\ (Pair("encrypt_in_place", "decrypt_in_place") /\ Before.res # "panic")
           => (last.res = "Ok" /\ buffer = Before.pre)

\* C6: when the T trailing bytes of the output of the inverse network are
\* not all zero, decrypt_in_place answers Err and leaves the buffer with the
\* length and the contents it had before the call.
WbcAuthFailureRestores ==
    (/\ last.op = "decrypt_in_place"
     /\ Len(last.pre) >= cfg.T
     /\ LET d == decrypt_inout(cfg, wbc_init(cfg, cfg.key), last.tweak, last.pre)
        IN  d.res = "ok" /\ Drop(d.buf, Len(last.pre) - cfg.T) # Zeros(cfg.T))
        => (last.res = "Err" /\ buffer = last.pre)

\* an authenticated ciphertext with one bit flipped has been refused
WbcAuthFailureRestoresWitness ==
    /\ Len(log) = 3
    /\ log[1].op = "encrypt_in_place" /\ log[2].op = "tamper"
    /\ last.op = "decrypt_in_place" /\ last.res = "Err"
    /\ last.tweak = log[1].tweak /\ Len(last.pre) >= 3

-----------------------------------------------------------------------------
(* Two Deck-SANE senders of one key and IV that encrypt the same two       *)
(* messages in opposite orders.  last holds the two messages a and b; snd  *)
(* encrypts a then b and lists its results in wire, rcv encrypts b then a  *)
(* and lists its results in log.                                           *)

Msgs == {[ad |-> ad, pt |-> pt] : ad \in Ads, pt \in Pts}

InitOrder ==
    /\ cfg \in SaneConfigs
    /\ snd = sane_new(cfg, cfg.key, LitSeq(cfg.iv))
    /\ rcv = sane_new(cfg, cfg.key, LitSeq(cfg.iv))
    /\ wire = <<>>
    /\ log = <<>>
    /\ \E a \in Msgs, b \in Msgs :
         a # b /\ last = [op |-> "order", a |-> a, b |-> b]
    /\ buffer = <<>>

\* the first session encrypts its next message of a, b
OrderEncryptAB ==
    /\ Len(wire) < 2
    /\ LET m == <<last.a, last.b>>[Len(wire) + 1]
           r == sane_encrypt_inout_detached(cfg, snd, m.ad, m.pt)
       IN  /\ snd' = r.self
           /\ wire' = Append(wire, [ad |-> m.ad, pt |-> m.pt, ct |-> r.buf, tag |-> r.tag])
    /\ UNCHANGED <<cfg, rcv, last, log, buffer>>

\* the second session encrypts its next message of b, a
OrderEncryptBA ==
    /\ Len(log) < 2
    /\ LET m == <<last.b, last.a>>[Len(log) + 1]
           r == sane_encrypt_inout_detached(cfg, rcv, m.ad, m.pt)
       IN  /\ rcv' = r.self
           /\ log' = Append(log, [ad |-> m.ad, pt |-> m.pt, ct |-> r.buf, tag |-> r.tag])
    /\ UNCHANGED <<cfg, snd, last, wire, buffer>>

NextOrder == OrderEncryptAB \/ OrderEncryptBA

SpecOrder == InitOrder /\ [][NextOrder]_vars

\* C11: two fresh Deck-SANE sessions of one key and IV that encrypt two
\* different messages a and b, one in the order a, b and the other in the
\* order b, a, produce different tags: the first tags differ, the second
\* tags differ, and each message gets a different tag in the two sessions.
SaneOrderSensitive ==
    (Len(wire) = 2 /\ Len(log) = 2)
        => /\ wire[1].tag # log[1].tag
           /\ wire[2].tag # log[2].tag
           /\ wire[1].tag # log[2].tag
           /\ wire[2].tag # log[1].tag
           /\ snd.d # rcv.d

\* both sessions have encrypted both messages, which differ in their
\* plaintexts only
SaneOrderSensitiveWitness ==
    /\ Len(wire) = 2 /\ Len(log) = 2
    /\ last.a.ad = last.b.ad /\ last.a.pt # last.b.pt
    /\ wire[1].pt = log[2].pt /\ wire[2].pt = log[1].pt

-----------------------------------------------------------------------------
(* The two session protocols side by side: a run is either a pair of       *)
(* Deck-SANE sessions or a pair of Deck-SANSE sessions, told apart by the  *)
(* instantiation cfg.                                                      *)

InitSessions == InitSane \/ InitSanse

NextSessions ==
    \/ cfg \in SaneConfigs /\ NextSane
    \/ cfg \in SanseConfigs /\ NextSanse

SpecSessions == InitSessions /\ [][NextSessions]_vars

\* the last call was an encrypt / a decrypt, of either protocol
IsEncrypt == last.op \in {"sane_encrypt", "sanse_encrypt"}
IsDecrypt == last.op \in {"sane_decrypt", "sanse_decrypt"}

\* C12: in Deck-SANE and Deck-SANSE, at any point of the call sequence, an
\* encrypt with empty associated data and an empty buffer returns a tag of
\* TagSize bytes and leaves the buffer empty, and the decrypt of that
\* message by the mirrored session in lockstep returns Ok.
ZeroLength ==
    /\ (IsEncrypt /\ last.ad = <<>> /\ last.buf = <<>>)
          => /\ last.out = <<>>
             /\ Len(last.tag) = cfg.T
             /\ wire[Len(wire)].ct = <<>>
    /\ (IsDecrypt /\ last.next /\ last.t = NoTamper
                  /\ wire[last.i].ad = <<>> /\ wire[last.i].pt = <<>>)
          => /\ last.res = "Ok"
             /\ last.out = <<>>

\* a Deck-SANSE receiver has been given, as its second message, one with
\* no associated data and no plaintext, after a message with a plaintext
ZeroLengthWitness ==
    /\ last.op = "sanse_decrypt" /\ last.next /\ last.t = NoTamper
    /\ last.i = 2 /\ wire[2].ad = <<>> /\ wire[2].pt = <<>>
    /\ wire[1].pt # <<>>
    /\ last.res = "Ok"

\* a Deck-SANE receiver has been given, as its second message, one with no
\* associated data and no plaintext
ZeroLengthSaneWitness ==
    /\ last.op = "sane_decrypt" /\ last.next /\ last.t = NoTamper
    /\ last.i = 2 /\ wire[2].ad = <<>> /\ wire[2].pt = <<>>
    /\ last.res = "Ok"

\* the direction bits a session of the protocol of cfg takes
Directions == IF cfg \in SaneConfigs THEN {0, 64} ELSE {0, 32}

\* the delimiters a session of the protocol of cfg absorbs with when its
\* direction bit is e: SANE's associated data and ciphertext, SANSE's
\* associated data, plaintext and tag
Delimiters(e) ==
    IF cfg \in SaneConfigs
    THEN <<sane_ad_delimiter(e), sane_ct_delimiter(e)>>
    ELSE <<sanse_ad_delimiter(e), sanse_pt_delimiter(e), sanse_tag_delimiter(e)>>

\* C14: in every reachable session state the direction bit is 0 or the
\* protocol's flag (0x40 in Deck-SANE, 0x20 in Deck-SANSE), and over the two
\* directions the delimiters are pairwise distinct bytes: four in Deck-SANE
\* (e|0x20, e|0xa0) and six in Deck-SANSE (e, e|0x40, e|0xc0); so the
\* delimiters of the two sessions' current and next calls never coincide
\* across item kinds or directions.
DelimitersDistinct ==
    LET n == Len(Delimiters(0))
        D == {<<e, i>> : e \in Directions, i \in 1..n}
    IN  /\ snd.e \in Directions /\ rcv.e \in Directions
        /\ \A p \in D, q \in D :
             p # q => Delimiters(p[1])[p[2]] # Delimiters(q[1])[q[2]]
        /\ \A s \in {snd, rcv}, i \in 1..n, j \in 1..n :
             /\ Delimiters(s.e)[i] \in 0..255
             /\ i # j => Delimiters(s.e)[i] # Delimiters(s.e)[j]
             /\ \A f \in Directions \ {s.e} :
                  Delimiters(s.e)[i] # Delimiters(f)[j]

\* a Deck-SANE sender with its direction bit set faces a receiver with its
\* direction bit clear
DelimitersDistinctWitness ==
    /\ cfg \in SaneConfigs
    /\ snd.e = 64 /\ rcv.e = 0 /\ Len(wire) = 1 /\ Len(log) = 2

\* a Deck-SANSE sender with its direction bit clear faces a receiver with
\* its direction bit set
DelimitersDistinctSanseWitness ==
    /\ cfg \in SanseConfigs
    /\ snd.e = 0 /\ rcv.e = 32 /\ Len(wire) = 2 /\ Len(log) = 1

\* the session the last call was made on
Callee == IF IsEncrypt THEN snd ELSE rcv

\* the blocks deck d has absorbed, each with the number of rolls of the
\* input mask at the time: the absorbed sequence, in the order of the rolls
History(d) == {[m |-> t.m, at |-> t.k.roll] : t \in d.x}

\* C17: every encrypt or decrypt call of Deck-SANE and Deck-SANSE, returning
\* Ok or Err, absorbs at least one block into the session's deck, and what
\* the deck had absorbed before the call is a strict prefix of what it has
\* absorbed after it: nothing is removed or changed, and everything new
\* comes after everything old.
HistoryGrows ==
    (IsEncrypt \/ IsDecrypt)
        => LET old == History(last.pre.d)
               now == History(Callee.d)
           IN  /\ old \subseteq now /\ old # now
               /\ \A t \in now \ old : t.at >= last.pre.d.k.roll
               /\ \A t \in old : t.at < last.pre.d.k.roll
               /\ Callee.d.k.roll > last.pre.d.k.roll
               /\ Callee.d.k.pb = last.pre.d.k.pb

\* a Deck-SANSE decrypt with a ciphertext has answered Err as the second
\* call of its session
HistoryGrowsWitness ==
    /\ last.op = "sanse_decrypt" /\ last.res = "Err"
    /\ last.buf # <<>> /\ Len(log) = 2

\* a Deck-SANE decrypt has answered Err
HistoryGrowsSaneWitness ==
    /\ last.op = "sane_decrypt" /\ last.res = "Err" /\ last.pre.d.x # {}

\* C18: each encrypt or decrypt call flips the session's direction bit
\* once: e is 0 or the flag of the protocol (0x40 in Deck-SANE, 0x20 in
\* Deck-SANSE), and after n calls on a session, failed ones included, e is
\* set exactly when n is odd.
DirectionBit ==
    LET flag == IF cfg \in SaneConfigs THEN 64 ELSE 32
    IN  /\ snd.e = (IF Len(wire) % 2 = 1 THEN flag ELSE 0)
        /\ rcv.e = (IF Len(log) % 2 = 1 THEN flag ELSE 0)
        /\ (IsEncrypt \/ IsDecrypt) => Callee.e = XorU8(last.pre.e, flag)

\* a Deck-SANSE sender has made two calls and its receiver one, which
\* answered Err
DirectionBitWitness ==
    /\ cfg \in SanseConfigs /\ Len(wire) = 2 /\ Len(log) = 1
    /\ log[1].res = "Err" /\ snd.e = 0 /\ rcv.e = 32

\* a Deck-SANE receiver has made two calls, which answered Err
DirectionBitSaneWitness ==
    /\ cfg \in SaneConfigs /\ Len(log) = 2
    /\ log[1].res = "Err" /\ log[2].res = "Err" /\ rcv.e = 0

\* C16 as stated: over any sequence of decrypt calls of a Deck-SANE
\* receiver, earlier calls that answered Err included, a decrypt that
\* answers Ok leaves in the buffer the plaintext the sender passed to the
\* encrypt call that produced the ciphertext and tag.
SaneOkIsSendersPlaintext ==
    (last.op = "sane_decrypt" /\ last.res = "Ok")
        => last.out = wire[last.i].pt

\* C16 as it holds: in a Deck-SANE receiver session none of whose earlier
\* decrypt calls answered Err, a decrypt that answers Ok was given an
\* untampered message of the sender and leaves in the buffer the plaintext
\* the sender passed to the encrypt call that produced it.
SaneOkIsSendersPlaintextUntilErr ==
    (/\ last.op = "sane_decrypt" /\ last.res = "Ok"
     /\ \A j \in 1..(Len(log) - 1) : log[j].res = "Ok")
        => /\ last.out = wire[last.i].pt
           /\ last.t = NoTamper

\* the second decrypt of a session has answered Ok on a message with a
\* plaintext, after a first one that answered Ok
SaneOkIsSendersPlaintextUntilErrWitness ==
    /\ last.op = "sane_decrypt" /\ last.res = "Ok" /\ Len(log) = 2
    /\ log[1].res = "Ok" /\ wire[last.i].pt # <<>>

-----------------------------------------------------------------------------
(* A Farfalle deck on its own: it is constructed from a key, absorbs a     *)
(* message and a delimiter, and is then given two different absorptions    *)
(* from one state, as the two passes of the wide block cipher that clone   *)
(* one deck are (wbc.rs:72,78).  snd is the deck, cfg.B its block width,   *)
(* last the last call.                                                     *)

MaxKeyLen == 3
MaxPadLen == 2

\* the block widths of the decks
DeckWidths == {2, 3}

\* no deck has been constructed yet
NoDeck == [deck |-> "none"]

\* the delimiter bytes of the three protocols
ProtocolDelimiters ==
    UNION {{sane_ad_delimiter(e), sane_ct_delimiter(e)} : e \in {0, 64}}
    \cup UNION {{sanse_ad_delimiter(e), sanse_pt_delimiter(e), sanse_tag_delimiter(e)} :
                e \in {0, 32}}
    \cup {0, 128}

\* the bytes of the absorbed messages: those the padding is made of
PadBytes == {0, 128}

\* the absorptions: a message and a delimiter
Absorptions ==
    {[m |-> LitSeq(s), sep |-> sep] :
        s \in StringsUpTo(PadBytes, MaxPadLen), sep \in ProtocolDelimiters}

InitDeck ==
    /\ cfg \in {[B |-> b] : b \in DeckWidths}
    /\ snd = NoDeck
    /\ rcv = NoDeck
    /\ wire = <<>>
    /\ last = NoCall
    /\ log = <<>>
    /\ buffer = <<>>

\* Farfalle::new with a key of any length up to MaxKeyLen
DeckNew ==
    /\ snd = NoDeck
    /\ \E key \in StringsUpTo({1}, MaxKeyLen) :
         /\ snd' = new(cfg.B, key)
         /\ last' = [op |-> "new", key |-> key]
    /\ UNCHANGED <<cfg, rcv, wire, log, buffer>>

\* one absorption into the new deck: message, delimiter, finalize
DeckAbsorb ==
    /\ last.op = "new" /\ snd # Panic
    /\ \E m \in Ads, sep \in {32, 128} :
         LET r == apply_padded(cfg, snd, m, sep)
         IN  /\ snd' = r[1]
             /\ rcv' = r[2]
             /\ last' = [op |-> "absorb", m |-> m, sep |-> sep, pre |-> snd]
    /\ UNCHANGED <<cfg, wire, log, buffer>>

\* two different absorptions from the one state of the deck; the deck goes
\* on with the first, the reader of the second is kept in last
DeckAbsorbTwo ==
    /\ last.op \in {"new", "absorb"} /\ snd # Panic
    /\ \E p \in Absorptions, q \in Absorptions :
         LET r1 == apply_padded(cfg, snd, p.m, p.sep)
             r2 == apply_padded(cfg, snd, q.m, q.sep)
         IN  /\ p # q
             /\ snd' = r1[1]
             /\ rcv' = r1[2]
             /\ last' = [op |-> "absorb2", p |-> p, q |-> q, pre |-> snd,
                         r1 |-> r1, r2 |-> r2]
    /\ UNCHANGED <<cfg, wire, log, buffer>>

NextDeck == DeckNew \/ DeckAbsorb \/ DeckAbsorbTwo

SpecDeck == InitDeck /\ [][NextDeck]_vars

\* C13: two different absorptions (message, delimiter), with delimiters of
\* the protocols, made from the same state of a deck never leave the deck
\* in the same state and never give the same reader.
PaddingInjective ==
    last.op = "absorb2"
        => /\ last.r1[1] # last.r2[1]
           /\ last.r1[2] # last.r2[2]

\* C15: Farfalle::new produces no deck when the key is as long as the block
\* or longer, and for every shorter key produces the deck with x zero and
\* k = Pb(key || 0x80 || 0*), a block of the full width.
DeckConstruction ==
    last.op = "new"
        => IF Len(last.key) >= cfg.B
           THEN snd = Panic
           ELSE /\ snd # Panic
                /\ snd.x = {}
                /\ snd.k.roll = 0
                /\ Len(snd.k.pb) = cfg.B
                /\ \A i \in 1..cfg.B :
                     snd.k.pb[i] = Lit(IF i <= Len(last.key) THEN last.key[i]
                                       ELSE IF i = Len(last.key) + 1 THEN 128
                                       ELSE 0)

\* construction has been refused for a key of exactly the block width
DeckConstructionWitness ==
    /\ last.op = "new" /\ Len(last.key) = cfg.B /\ snd = Panic

\* construction has succeeded for a key one byte shorter than the block
DeckConstructionShortWitness ==
    /\ last.op = "new" /\ Len(last.key) = cfg.B - 1 /\ snd # Panic

-----------------------------------------------------------------------------
(* The split point of the wide block cipher on its own: split is called    *)
(* with the length of a buffer, and the buffer is then split at the point  *)
(* returned.  cfg holds the block size B and the alignment L.              *)

MaxSplitLen == 24

\* instantiations the assertions of split let through
SplitConfigs ==
    {c \in {[B |-> b, L |-> l] : b \in {2, 4, 6, 8}, l \in {2, 3, 4}} : split_asserts(c)}

InitSplit ==
    /\ cfg \in SplitConfigs
    /\ snd = <<>>
    /\ rcv = <<>>
    /\ wire = <<>>
    /\ last = NoCall
    /\ log = <<>>
    /\ buffer = <<>>

\* split(buffer.len()) and buffer.split_at_mut(s), as encrypt_inout and
\* decrypt_inout start; split_at_mut aborts when s is beyond the buffer
SplitCall ==
    /\ \E n \in 0..MaxSplitLen :
         LET s == split(cfg, n)
         IN  /\ buffer' = Zeros(n)
             /\ last' = [op |-> "split", n |-> n, s |-> s,
                         aborts |-> ~(s <= n)]
    /\ UNCHANGED <<cfg, snd, rcv, wire, log>>

NextSplit == SplitCall

SpecSplit == InitSplit /\ [][NextSplit]_vars

\* the branch of split a length n takes
SplitShort == last.n <= 2 * cfg.B - (cfg.L + 2)

\* q = ceil((n + L + 1) / B) and x = floor(log2(q - 1)), by their
\* defining inequalities
SplitQX(q, x) ==
    /\ (q - 1) * cfg.B < last.n + cfg.L + 1
    /\ last.n + cfg.L + 1 <= q * cfg.B
    /\ Pow2(x) <= q - 1
    /\ q - 1 < Pow2(x + 1)

\* C19 as stated: split(n) is round((n+L)/(2L))*L when n <= 2B-(L+2), with
\* any rule for ties, and otherwise ((q-1) - 2^x)*B - L with
\* q = ceil((n+L+1)/B) and x = floor(log2(q-1)).
SplitFormula ==
    last.op = "split"
        => IF SplitShort
           THEN \E r \in 0..(last.n + 1) :
                  /\ last.s = r * cfg.L
                  /\ 2 * (r * 2 * cfg.L - (last.n + cfg.L)) <= 2 * cfg.L
                  /\ 2 * ((last.n + cfg.L) - r * 2 * cfg.L) <= 2 * cfg.L
           ELSE \E q \in 1..(last.n + cfg.L + 1), x \in 0..last.n :
                  /\ SplitQX(q, x)
                  /\ last.s = ((q - 1) - Pow2(x)) * cfg.B - cfg.L

\* C19 as it holds: split(n) is floor((n+L)/(2L))*L when n <= 2B-(L+2),
\* and otherwise ((q-1) * 2^x)*B - L with q = ceil((n+L+1)/B) and
\* x = floor(log2(q-1)).
SplitFormulaFloorShift ==
    last.op = "split"
        => IF SplitShort
           THEN \E r \in 0..(last.n + 1) :
                  /\ last.s = r * cfg.L
                  /\ r * 2 * cfg.L <= last.n + cfg.L
                  /\ last.n + cfg.L < (r + 1) * 2 * cfg.L
           ELSE \E q \in 1..(last.n + cfg.L + 1), x \in 0..last.n :
                  /\ SplitQX(q, x)
                  /\ last.s = ((q - 1) * Pow2(x)) * cfg.B - cfg.L

\* split has been called with a length of the second branch for which
\* q - 1 is not a power of two
SplitFormulaFloorShiftWitness ==
    /\ last.op = "split" /\ ~SplitShort
    /\ \E q \in 1..(last.n + cfg.L + 1), x \in 0..last.n :
         SplitQX(q, x) /\ q - 1 > Pow2(x)

\* split has been called with a length of the first branch for which
\* (n+L)/(2L) is not a whole number
SplitFormulaShortWitness ==
    /\ last.op = "split" /\ SplitShort /\ (last.n + cfg.L) % (2 * cfg.L) # 0

\* C20: for every buffer length n the split point s = split(n) satisfies
\* 0 <= s <= n, so splitting the buffer at s does not abort.
SplitInBounds ==
    last.op = "split"
        => /\ 0 <= last.s /\ last.s <= last.n
           /\ ~last.aborts
           /\ Len(buffer) - last.s >= 0

-----------------------------------------------------------------------------
(* The alignment of the first keystream of Deck-SANE on its own: a session *)
(* is constructed for every combination of block size, tag size and        *)
(* alignment, with an empty key and IV, and the bytes consume_tag has      *)
(* drawn from the reader are counted.                                      *)

MaxAlignBlock == 3
MaxAlignTag == 4
MaxAlign == 9

AlignConfigs ==
    {[B |-> b, T |-> t, A |-> a, key |-> <<>>, iv |-> <<>>] :
        b \in 1..MaxAlignBlock, t \in 1..MaxAlignTag, a \in 1..MaxAlign}

\* the number of bytes reader r has handed out: the blocks its core has
\* produced, less the bytes of the last block still in its buffer
Drawn(B, r) == r.core.y.roll * B - Len(r.buffer)

\* ceil(Alignment / TagSize) * TagSize: the least multiple of TagSize that
\* is not below Alignment
AlignedOffset ==
    CHOOSE m \in 0..(cfg.A + cfg.T) :
        m % cfg.T = 0 /\ m >= cfg.A /\ m - cfg.T < cfg.A

InitAlign ==
    /\ cfg \in AlignConfigs
    /\ snd = NoDeck
    /\ rcv = NoDeck
    /\ wire = <<>>
    /\ last = NoCall
    /\ log = <<>>
    /\ buffer = <<>>

\* DeckSane::new: the deck, the first reader, consume_tag
AlignNew ==
    /\ snd = NoDeck
    /\ LET s == sane_new(cfg, cfg.key, LitSeq(cfg.iv))
       IN  /\ snd' = s
           /\ last' = [op |-> "sane_new", drawn |-> Drawn(cfg.B, s.k)]
    /\ UNCHANGED <<cfg, rcv, wire, log, buffer>>

NextAlign == AlignNew

SpecAlign == InitAlign /\ [][NextAlign]_vars

\* C21: consume_tag draws ceil(Alignment/TagSize)*TagSize bytes in total
\* from the reader, for every block size, tag size and alignment.
ConsumeTagAligned ==
    last.op = "sane_new" => last.drawn = AlignedOffset

\* consume_tag draws ceil(Alignment/TagSize)*TagSize bytes whenever the
\* bytes to discard after the tag are at most one block, or the tag is as
\* long as a block
ConsumeTagAlignedWithinBlock ==
    (last.op = "sane_new" /\ (AlignedOffset - cfg.T <= cfg.B \/ cfg.T = cfg.B))
        => last.drawn = AlignedOffset

\* a session has been constructed whose discard is one whole block
ConsumeTagAlignedWithinBlockWitness ==
    last.op = "sane_new" /\ AlignedOffset - cfg.T = cfg.B /\ cfg.T # cfg.B

\* C22: after every Deck-SANE encrypt and every decrypt that answers Ok, the
\* keystream newly installed in the session is a reader from which
\* ceil(Alignment/TagSize)*TagSize bytes have been drawn, as after init.
SaneKeystreamAligned ==
    (last.op = "sane_encrypt" \/ (last.op = "sane_decrypt" /\ last.res = "Ok"))
        => Drawn(cfg.B, Callee.k) = AlignedOffset

\* after every Deck-SANE encrypt and every decrypt that answers Ok the
\* newly installed keystream is a reader from which the TagSize bytes of
\* the tag have been drawn and no more; a new session's keystream is at
\* the aligned offset
SaneKeystreamAfterTag ==
    /\ (last.op = "sane_encrypt" \/ (last.op = "sane_decrypt" /\ last.res = "Ok"))
          => Drawn(cfg.B, Callee.k) = cfg.T
    /\ Len(wire) = 0 => Drawn(cfg.B, snd.k) = AlignedOffset
    /\ Len(log) = 0 => Drawn(cfg.B, rcv.k) = AlignedOffset

\* a decrypt has answered Ok as the second call of its session
SaneKeystreamAfterTagWitness ==
    last.op = "sane_decrypt" /\ last.res = "Ok" /\ Len(log) = 2

-----------------------------------------------------------------------------
(* The deck behind its block buffer (CoreWrapper, src/src/core_api.rs):    *)
(* snd is the Farfalle core, buffer the pending bytes of the eager block   *)
(* buffer, rcv the reader the last finalize_deck gave, log the calls made. *)

MaxCoreOps == 4     \* calls made on one deck
MaxUpdateLen == 3   \* bytes handed to one update call

CoreWidths == {2, 3}

\* CoreWrapper over Farfalle::new: an empty block buffer
InitCore ==
    /\ cfg \in {[B |-> b, key |-> <<1>>] : b \in CoreWidths}
    /\ snd = new(cfg.B, cfg.key)
    /\ buffer = <<>>
    /\ rcv = NoDeck
    /\ wire = <<>>
    /\ log = <<>>
    /\ last = NoCall

\* Update::update for CoreWrapper
CoreUpdate ==
    /\ Len(log) < MaxCoreOps
    /\ \E data \in StringsUpTo(InBytes, MaxUpdateLen) :
         LET r == digest_blocks(cfg.B, snd, buffer, LitSeq(data))
         IN  /\ snd' = r[1]
             /\ buffer' = r[2]
             /\ last' = [op |-> "update", pre |-> snd, pending |-> buffer,
                         data |-> data]
    /\ log' = Append(log, "update")
    /\ UNCHANGED <<cfg, rcv, wire>>

\* Deck::finalize_deck for CoreWrapper
CoreFinalize ==
    /\ Len(log) < MaxCoreOps
    /\ LET r == finalize_xof_core(cfg.B, snd, buffer)
       IN  /\ snd' = r[1]
           /\ rcv' = from_core(r[2])
           /\ last' = [op |-> "finalize_deck", pre |-> snd, pending |-> buffer]
    /\ buffer' = <<>>
    /\ log' = Append(log, "finalize_deck")
    /\ UNCHANGED <<cfg, wire>>

NextCore == CoreUpdate \/ CoreFinalize

SpecCore == InitCore /\ [][NextCore]_vars

\* the padded tail block of a finalize: pending bytes, 0x80, zeros
PaddedTail(B, pending) ==
    pending \o <<Lit(128)>> \o Zeros(B - Len(pending) - 1)

\* C23: every finalize absorbs exactly one block, the padded tail (pending
\* bytes, 0x80, zeros; 0x80 and zeros when nothing is pending), masked with
\* the pre-finalize k, then rolls k, and the reader is derived from the result.
FinalizePadsOneBlock ==
    last.op = "finalize_deck" =>
        /\ snd.x = last.pre.x
                     \cup {[m |-> PaddedTail(cfg.B, last.pending), k |-> last.pre.k]}
        /\ snd.k = rollc(rollc(last.pre.k))
        /\ rcv = from_core([k |-> snd.k, y |-> [pd |-> snd.x, roll |-> 0]])

\* what finalize does: the padded tail is absorbed only when bytes are
\* pending; with nothing pending no block is absorbed and k is rolled once
FinalizePadsPendingOnly ==
    last.op = "finalize_deck" =>
        /\ last.pending # <<>> =>
             /\ snd.x = last.pre.x
                  \cup {[m |-> PaddedTail(cfg.B, last.pending), k |-> last.pre.k]}
             /\ snd.k = rollc(rollc(last.pre.k))
        /\ last.pending = <<>> =>
             /\ snd.x = last.pre.x
             /\ snd.k = rollc(last.pre.k)
        /\ rcv = from_core([k |-> snd.k, y |-> [pd |-> snd.x, roll |-> 0]])

FinalizePadsPendingOnlyWitness ==
    /\ last.op = "finalize_deck"
    /\ last.pending = <<>>
    /\ last.pre.x # {}

\* the finalize_deck calls made so far
RECURSIVE Finalizes(_)
Finalizes(l) ==
    IF l = <<>> THEN 0
    ELSE (IF Head(l) = "finalize_deck" THEN 1 ELSE 0) + Finalizes(Tail(l))

\* C24 as stated: right after finalize the deck's k and x are what they were
\* before the call.
FinalizeLeavesDeck ==
    last.op = "finalize_deck" => snd.k = last.pre.k /\ snd.x = last.pre.x

\* C24: finalize advances the deck and rolls nothing back: k is rolled (once
\* more than the blocks absorbed), x keeps all it held, the reader holds a
\* copy of the deck's rolled k and the seed Pd(x), and later updates go on
\* from the advanced state: k has been rolled once for every block absorbed
\* and once for every finalize.
FinalizeAdvancesDeck ==
    /\ last.op = "finalize_deck" =>
         /\ snd.k.pb = last.pre.k.pb
         /\ snd.k.roll =
              last.pre.k.roll + (IF last.pending = <<>> THEN 1 ELSE 2)
         /\ last.pre.x \subseteq snd.x
         /\ rcv.core.k = snd.k
         /\ rcv.core.y = [pd |-> snd.x, roll |-> 0]
    /\ snd.k.roll = Cardinality(snd.x) + Finalizes(log)
    /\ \A t \in snd.x : t.k.roll < snd.k.roll

FinalizeAdvancesDeckWitness ==
    /\ log = <<"update", "finalize_deck", "update">>
    /\ Cardinality(snd.x) >= 3

-----------------------------------------------------------------------------
(* What one Deck-SANE call absorbs.                                        *)

\* the absorptions (message, delimiter) of a call with event bits e, in order
SaneAbsorptions(e, ad, ct) ==
    IF ct = <<>> THEN <<[m |-> ad, sep |-> OrU8(e, 32)]>>
    ELSE (IF ad # <<>> THEN <<[m |-> ad, sep |-> OrU8(e, 32)]>> ELSE <<>>)
         \o <<[m |-> ct, sep |-> OrU8(e, 160)]>>

\* the absorptions l made one after the other on deck d; r is the reader of
\* the last one.  Result: <<deck, reader>>
RECURSIVE Absorbed(_, _, _, _)
Absorbed(c, d, r, l) ==
    IF l = <<>> THEN <<d, r>>
    ELSE LET a == sane_apply_padded(c, Head(l).m, Head(l).sep, d)
         IN  Absorbed(c, a[1], a[2], Tail(l))

\* the ciphertext of the last call
LastCt == IF last.op = "sane_encrypt" THEN last.out ELSE last.buf

\* C25: a Deck-SANE call absorbs into d the associated data with e|0x20 alone
\* when the ciphertext is empty (also when the associated data is empty), and
\* otherwise the associated data with e|0x20 only if it is not empty and then
\* the ciphertext with e|0xa0; the tag is read from the reader of the last of
\* these absorptions.
SaneAbsorptionRule ==
    last.op \in {"sane_encrypt", "sane_decrypt"} =>
        LET l == SaneAbsorptions(last.pre.e, last.ad, LastCt)
            a == Absorbed(cfg, last.pre.d, NoDeck, l)
            t == xor(cfg.B, a[2], Zeros(cfg.T))
        IN  /\ Len(l) = (IF LastCt # <<>> /\ last.ad # <<>> THEN 2 ELSE 1)
            /\ Callee.d = a[1]
            /\ last.op = "sane_encrypt" => last.tag = t[1] /\ Callee.k = t[2]
            /\ last.op = "sane_decrypt" =>
                 /\ last.res = "Ok" <=> last.tag = t[1]
                 /\ last.res = "Ok" => Callee.k = t[2]

\* a message with a ciphertext and no associated data has been accepted
SaneAbsorptionRuleWitness ==
    /\ last.op = "sane_decrypt" /\ last.res = "Ok"
    /\ last.ad = <<>> /\ last.buf # <<>>

\* a message with neither ciphertext nor associated data has been accepted
SaneAbsorptionRuleEmptyWitness ==
    /\ last.op = "sane_decrypt" /\ last.res = "Ok"
    /\ last.ad = <<>> /\ last.buf = <<>>

-----------------------------------------------------------------------------
(* What one Deck-SANSE call absorbs into the session history.              *)

\* the history after the associated data of the last call: absorbed with
\* delimiter e when the buffer is empty or the associated data is not
SanseAfterAd ==
    IF last.buf = <<>> \/ last.ad # <<>>
    THEN apply_padded(cfg, last.pre.d, last.ad, last.pre.e)[1]
    ELSE last.pre.d

\* the clone of the last call with the tag absorbed: <<deck, reader>>
SanseClone == apply_padded(cfg, SanseAfterAd, last.tag, OrU8(last.pre.e, 192))

\* the plaintext of the last call: the buffer of encrypt, and for decrypt the
\* buffer with the keystream of the clone taken off
SansePlaintext ==
    IF last.op = "sanse_encrypt" THEN last.buf
    ELSE xor_in2out(cfg, SanseClone[2], last.buf)

\* the terms that the absorption of the tag adds to the clone
SanseTagTerms == SanseClone[1].x \ SanseAfterAd.x

\* C26: a Deck-SANSE call, encrypt or decrypt, absorbs into the session
\* history d the associated data with delimiter e and, for a buffer that is
\* not empty, the plaintext once with e|0x40, and nothing else; the tag with
\* e|0xc0 is absorbed only into the clone taken before the plaintext, and
\* none of what that absorption adds is in the session history.
SanseHistoryRule ==
    last.op \in {"sanse_encrypt", "sanse_decrypt"} =>
        /\ last.buf = <<>> => Callee.d = SanseAfterAd
        /\ last.buf # <<>> =>
             /\ Callee.d = apply_padded(cfg, SanseAfterAd, SansePlaintext,
                                        OrU8(last.pre.e, 64))[1]
             /\ SanseTagTerms # {}
             /\ SanseTagTerms \cap Callee.d.x = {}
             /\ Callee.d # SanseClone[1]
             /\ last.op = "sanse_encrypt" =>
                  last.out = xor_in2out(cfg, SanseClone[2], last.buf)
             /\ (last.op = "sanse_decrypt" /\ last.res = "Ok") =>
                  last.out = SansePlaintext

\* the second message accepted by the receiver has associated data and a
\* plaintext
SanseHistoryRuleWitness ==
    /\ last.op = "sanse_decrypt" /\ last.res = "Ok"
    /\ last.buf # <<>> /\ last.ad # <<>>
    /\ Len(log) = 2

-----------------------------------------------------------------------------
(* The authenticated wide block cipher with tags of more than one byte.    *)

WbcTagConfigs ==
    {[B |-> 4, L |-> 2, T |-> 2, key |-> <<1>>],
     [B |-> 4, L |-> 2, T |-> 3, key |-> <<1>>]}

InitWbcTag ==
    /\ cfg \in WbcTagConfigs
    /\ buffer \in WbcBufs
    /\ snd = <<>>
    /\ rcv = <<>>
    /\ wire = <<>>
    /\ last = NoCall
    /\ log = <<>>

SpecWbcTag == InitWbcTag /\ [][NextWbc]_vars

\* C27: decrypt_in_place on a buffer shorter than T bytes answers Err and
\* leaves the buffer, its length and its bytes, as it was: the network has
\* not been run over it.
ShortBufferRejected ==
    (last.op = "decrypt_in_place" /\ Len(last.pre) < cfg.T)
        => (last.res = "Err" /\ buffer = last.pre)

\* a buffer that holds bytes, but fewer than T, has been rejected
ShortBufferRejectedWitness ==
    /\ last.op = "decrypt_in_place"
    /\ last.pre # <<>> /\ Len(last.pre) < cfg.T
    /\ last.res = "Err"

-----------------------------------------------------------------------------
(* Delimiters (src/src/deck.rs).  A delimiter type is a list of bits over  *)
(* UTerm; its byte is the const N.  wire holds the bits given to prefix,   *)
(* in the order of the calls, and snd the byte of the delimiter built.     *)

MaxPrefix == 8      \* prefix calls made on one delimiter

\* the context bits a delimiter byte has room for next to the closing 1
ContextBits == 7

\* impl Delim for UTerm
UTermN == 0

\* impl Delim for D<B, U> as it would be with the shift applied after the
\* or: (B::U8 << 7 | U::N) >> 1
D_shifts_after_or(b, n) == OrU8((b * 128) % 256, n) \div 2

\* impl Delim for D<B, U>: N = B::U8 << 7 | U::N >> 1; both shifts bind
\* tighter than the or
D(b, n) == OrU8((b * 128) % 256, n \div 2)

\* Pad1X = WithTrailingZeros<D<B1, UTerm>>
Pad1X == D(1, UTermN)

\* WithTrailingZeros::prefix::<B>: WithTrailingZeros<D<B, N>>
prefix(b, n) == D(b, n)

\* the byte of Pad1X after the prefix calls s, first call first
RECURSIVE DelimOf(_)
DelimOf(s) ==
    IF s = <<>> THEN Pad1X
    ELSE prefix(s[Len(s)], DelimOf(Take(s, Len(s) - 1)))

InitDelim ==
    /\ cfg = [delim |-> "Pad1X"]
    /\ snd = Pad1X
    /\ wire = <<>>
    /\ rcv = NoDeck
    /\ last = NoCall
    /\ log = <<>>
    /\ buffer = <<>>

\* one more prefix call
Prefix ==
    /\ Len(wire) < MaxPrefix
    /\ \E b \in {0, 1} :
         /\ snd' = prefix(b, snd)
         /\ wire' = Append(wire, b)
         /\ last' = [op |-> "prefix", b |-> b]
    /\ UNCHANGED <<cfg, rcv, log, buffer>>

NextDelim == Prefix

SpecDelim == InitDelim /\ [][NextDelim]_vars

\* the context bits s packed from bit 7 down, the last of s first, then a
\* single 1 bit, then zeros
RECURSIVE Packed(_)
Packed(s) ==
    IF s = <<>> THEN 128
    ELSE s[Len(s)] * 128 + Packed(Take(s, Len(s) - 1)) \div 2

\* all sequences of at most n bits
BitSeqs(n) == StringsUpTo({0, 1}, n)

\* C28: the delimiter built from Pad1X by at most 7 prefix calls holds the
\* bits from bit 7 down, the most recent first, then a single 1 and zeros,
\* and no other sequence of at most 7 bits gives the same byte.
DelimiterPacked ==
    Len(wire) <= ContextBits =>
        /\ snd = Packed(wire)
        /\ snd % Pow2(ContextBits - Len(wire)) = 0
        /\ (snd \div Pow2(ContextBits - Len(wire))) % 2 = 1
        /\ \A j \in 1..Len(wire) :
             (snd \div Pow2(ContextBits + 1 - j)) % 2 = wire[Len(wire) + 1 - j]
        /\ \A s \in BitSeqs(ContextBits) : s # wire => DelimOf(s) # snd

\* seven bits have been prefixed, the first of them a 1
DelimiterPackedWitness ==
    /\ Len(wire) = ContextBits
    /\ wire[1] = 1 /\ wire[ContextBits] = 0

\* with an eighth bit the closing 1 is shifted out and two sequences meet
DelimiterOverflows ==
    /\ Len(wire) = ContextBits + 1
    /\ \E s \in BitSeqs(ContextBits) : DelimOf(s) = snd

====
